---- MODULE Spec2Model ----
(***************************************************************************)
(* Model of services/paddle-ocr/paddle_ocr_server.py: the POST /ocr        *)
(* handler ocr_image, run as coroutines of one asyncio event loop over a   *)
(* process-wide PaddleOCR handle.                                          *)
(*                                                                         *)
(* Numbers are integers with the Python/numpy type they carry: coordinates *)
(* are in pixels, scores in hundredths (95 is 0.95).                       *)
(***************************************************************************)
EXTENDS Integers, Sequences, FiniteSets, TLC

\* ---- bounds ------------------------------------------------------------
NumRequests == 2        \* requests in flight
MaxPages == 2           \* pages in one engine result
MaxDetections == 2      \* lines in one engine result, over all its pages

Requests == 1..NumRequests
NoRequest == 0

\* ---- numbers -----------------------------------------------------------
\* a numpy float32, as the engine reports coordinates and scores
F32(n) == [t |-> "float32", v |-> n]

\* float(p): a Python float of the same value, whatever the number's type
Float(p) == [t |-> "float", v |-> p.v]

\* x_max - x_min on Python floats
Sub(a, b) == [t |-> "float", v |-> a.v - b.v]

\* min(xs) on a non-empty list: the first smallest element
RECURSIVE PyMin(_)
PyMin(xs) ==
    IF Len(xs) = 1 THEN xs[1]
    ELSE LET m == PyMin(SubSeq(xs, 1, Len(xs) - 1))
         IN  IF xs[Len(xs)].v < m.v THEN xs[Len(xs)] ELSE m

\* max(xs) on a non-empty list: the first largest element
RECURSIVE PyMax(_)
PyMax(xs) ==
    IF Len(xs) = 1 THEN xs[1]
    ELSE LET m == PyMax(SubSeq(xs, 1, Len(xs) - 1))
         IN  IF xs[Len(xs)].v > m.v THEN xs[Len(xs)] ELSE m

\* ---- uploads and decoding ----------------------------------------------
\* the bytes a client can post: nothing, random binary, a PNG cut short,
\* a whole RGBA PNG
Uploads ==
    { [fmt |-> "",     complete |-> FALSE, mode |-> "",     size |-> <<0, 0>>],
      [fmt |-> "bin",  complete |-> TRUE,  mode |-> "",     size |-> <<0, 0>>],
      [fmt |-> "PNG",  complete |-> FALSE, mode |-> "RGBA", size |-> <<2, 1>>],
      [fmt |-> "PNG",  complete |-> TRUE,  mode |-> "RGBA", size |-> <<2, 1>>] }

ImageFormats == {"PNG", "JPEG", "BMP", "WEBP", "GIF"}

\* Image.open(BytesIO(content)).convert("RGB") returns instead of raising
CanOpen(content) == content.fmt \in ImageFormats /\ content.complete

\* np.array(Image.open(BytesIO(content)).convert("RGB")): height x width x 3
ToArray(content) == [shape |-> <<content.size[2], content.size[1], 3>>]

\* ---- engine results ----------------------------------------------------
Pt(x, y) == <<F32(x), F32(y)>>

\* a rotated quadrilateral (one corner above the image), and one point
Quad == <<Pt(50, 20), Pt(10, 25), Pt(12, 60), Pt(48, -3)>>
Dot == <<Pt(5, 5)>>

\* line = [poly, (text, score)]
Lines ==
    { <<Quad, <<"HELLO", F32(95)>>>>,
      <<Dot,  <<"",      F32(120)>>>> }

NoneValue == [kind |-> "None"]
ListOf(s) == [kind |-> "list", items |-> s]
Unbound == [kind |-> "unbound"]

LineSeqs == UNION {[1..n -> Lines] : n \in 0..MaxDetections}
PageValues == {NoneValue} \cup {ListOf(ls) : ls \in LineSeqs}
PageSeqs == UNION {[1..n -> PageValues] : n \in 0..MaxPages}

\* the lines of a page, none for a None page
LinesOf(page) == IF page.kind = "list" THEN page.items ELSE <<>>

RECURSIVE CountLines(_)
CountLines(ps) ==
    IF Len(ps) = 0 THEN 0
    ELSE CountLines(SubSeq(ps, 1, Len(ps) - 1)) + Len(LinesOf(ps[Len(ps)]))

\* what ocr.ocr(img_np) can return
EngineResults ==
    {NoneValue} \cup
    {ListOf(ps) : ps \in {qs \in PageSeqs : CountLines(qs) <= MaxDetections}}

\* ---- the loop body -----------------------------------------------------
\* a loop over the first page alone
PagesOfFirstOnly(res) ==
    IF res.kind = "None" \/ Len(res.items) = 0 THEN <<>>
    ELSE <<res.items[1]>>

\* `result or []`
PagesOf(res) == IF res.kind = "None" THEN <<>> ELSE res.items

\* a box whose width and height are the largest coordinates
ToBoxNoSubtract(line) ==
    LET poly == line[1]
        xs == [i \in 1..Len(poly) |-> Float(poly[i][1])]
        ys == [i \in 1..Len(poly) |-> Float(poly[i][2])]
    IN  [x |-> PyMin(xs), y |-> PyMin(ys),
         width |-> PyMax(xs), height |-> PyMax(ys),
         text |-> line[2][1], confidence |-> Float(line[2][2])]

\* lines 43-58, for a polygon of at least one point
ToBox(line) ==
    LET poly == line[1]
        text == line[2][1]
        score == line[2][2]
        xs == [i \in 1..Len(poly) |-> Float(poly[i][1])]
        ys == [i \in 1..Len(poly) |-> Float(poly[i][2])]
        x_min == PyMin(xs)
        x_max == PyMax(xs)
        y_min == PyMin(ys)
        y_max == PyMax(ys)
    IN  [x |-> x_min, y |-> y_min,
         width |-> Sub(x_max, x_min), height |-> Sub(y_max, y_min),
         text |-> text, confidence |-> Float(score)]

\* an append that drops the lines without text
AppendBoxSkipEmptyText(bs, line) ==
    IF line[2][1] = "" THEN bs ELSE Append(bs, ToBox(line))

\* boxes.append({...})
AppendBox(bs, line) == Append(bs, ToBox(line))

\* ---- responses ---------------------------------------------------------
NoResponse == [status |-> 0, body |-> [none |-> TRUE]]

\* return {"boxes": boxes}
Success(bs) == [status |-> 200, body |-> [boxes |-> bs]]

\* an exception leaving ocr_image: no handler is registered on app
InternalServerError == [status |-> 500, body |-> [text |-> "Internal Server Error"]]

\* ---- state -------------------------------------------------------------
VARIABLES
    ocr,        \* the process-wide engine handle
    loop,       \* the request whose coroutine the event loop is running
    pc,         \* where each request is
    upload,     \* the bytes read from each request's file
    content,    \* locals of each call of ocr_image
    img_np,
    result,
    boxes,
    calls,      \* calls of ocr.ocr made for each request
    response,   \* the response on each request's connection
    sent        \* the error responses given so far, by the stage that failed

vars == <<ocr, loop, pc, upload, content, img_np, result, boxes,
          calls, response, sent>>

frame == <<content, img_np, result, boxes>>

\* where a request can be: in the handler, or out of it by an exception
InFlight == {"Reading", "Ready", "Received", "Decoded", "InEngine",
             "Recognized", "Assembled"}
Failed == {"DecodeFailed", "EngineFailed", "AssembleFailed"}

Init ==
    /\ ocr = [lang |-> "ch", show_log |-> FALSE]
    /\ loop = NoRequest
    /\ pc = [r \in Requests |-> "Idle"]
    /\ upload = [r \in Requests |-> Unbound]
    /\ content = [r \in Requests |-> Unbound]
    /\ img_np = [r \in Requests |-> Unbound]
    /\ result = [r \in Requests |-> Unbound]
    /\ boxes = [r \in Requests |-> <<>>]
    /\ calls = [r \in Requests |-> 0]
    /\ response = [r \in Requests |-> NoResponse]
    /\ sent = [f \in Failed |-> {}]

\* ---- the handler, one coroutine per request -----------------------------

\* the locals of a call die with it
Freed(r) ==
    /\ content' = [content EXCEPT ![r] = Unbound]
    /\ img_np' = [img_np EXCEPT ![r] = Unbound]
    /\ result' = [result EXCEPT ![r] = Unbound]
    /\ boxes' = [boxes EXCEPT ![r] = <<>>]

\* POST /ocr reaches ocr_image, which suspends in `await file.read()`
Arrive(r) ==
    /\ loop = NoRequest
    /\ pc[r] = "Idle"
    /\ pc' = [pc EXCEPT ![r] = "Reading"]
    /\ UNCHANGED <<ocr, loop, upload, frame, calls, response, sent>>

\* the read finishes with the posted bytes; the coroutine waits for the
\* event loop
ReadDone(r) ==
    /\ pc[r] = "Reading"
    /\ \E u \in Uploads : upload' = [upload EXCEPT ![r] = u]
    /\ pc' = [pc EXCEPT ![r] = "Ready"]
    /\ UNCHANGED <<ocr, loop, frame, calls, response, sent>>

\* bytes kept in one module-level name, holding the latest read
BytesReadShared(r) ==
    LET others == {q \in Requests \ {r} : pc[q] = "Ready"}
    IN  IF others = {} THEN upload[r] ELSE upload[CHOOSE q \in others : TRUE]

\* what `await file.read()` gives the coroutine of r
BytesRead(r) == upload[r]

\* the event loop resumes the coroutine: content = <the bytes read>
Resume(r) ==
    /\ loop = NoRequest
    /\ pc[r] = "Ready"
    /\ loop' = r
    /\ content' = [content EXCEPT ![r] = BytesRead(r)]
    /\ pc' = [pc EXCEPT ![r] = "Received"]
    /\ UNCHANGED <<ocr, upload, img_np, result, boxes, calls, response,
                   sent>>

\* image = Image.open(BytesIO(content)).convert("RGB"); img_np = np.array(image)
Decode(r) ==
    /\ loop = r
    /\ pc[r] = "Received"
    /\ CanOpen(content[r])
    /\ img_np' = [img_np EXCEPT ![r] = ToArray(content[r])]
    /\ pc' = [pc EXCEPT ![r] = "Decoded"]
    /\ UNCHANGED <<ocr, loop, upload, content, result, boxes, calls,
                   response, sent>>

\* Image.open or convert raises
DecodeRaise(r) ==
    /\ loop = r
    /\ pc[r] = "Received"
    /\ ~CanOpen(content[r])
    /\ pc' = [pc EXCEPT ![r] = "DecodeFailed"]
    /\ UNCHANGED <<ocr, loop, upload, frame, calls, response, sent>>

\* ocr.ocr(img_np) is entered: a plain call, the event loop stays with r
EngineCall(r) ==
    /\ loop = r
    /\ pc[r] = "Decoded"
    /\ calls' = [calls EXCEPT ![r] = calls[r] + 1]
    /\ pc' = [pc EXCEPT ![r] = "InEngine"]
    /\ UNCHANGED <<ocr, loop, upload, frame, response, sent>>

\* boxes: List[Dict[str, Any]] = []
InitialBoxes(r) == <<>>

\* result = ocr.ocr(img_np) returns; boxes = []
EngineReturn(r) ==
    /\ loop = r
    /\ pc[r] = "InEngine"
    /\ \E res \in EngineResults : result' = [result EXCEPT ![r] = res]
    /\ boxes' = [boxes EXCEPT ![r] = InitialBoxes(r)]
    /\ pc' = [pc EXCEPT ![r] = "Recognized"]
    /\ UNCHANGED <<ocr, loop, upload, content, img_np, calls, response,
                   sent>>

\* ocr.ocr(img_np) raises
EngineRaise(r) ==
    /\ loop = r
    /\ pc[r] = "InEngine"
    /\ pc' = [pc EXCEPT ![r] = "EngineFailed"]
    /\ UNCHANGED <<ocr, loop, upload, frame, calls, response, sent>>

\* for line in page: ..., from the i-th line on
RECURSIVE LineLoop(_, _, _)
LineLoop(lines, i, bs) ==
    IF i > Len(lines) THEN bs
    ELSE LineLoop(lines, i + 1, AppendBox(bs, lines[i]))

\* a TypeError caught around the loops, answering with the boxes so far
NonePageSwallowed(bs) == [boxes |-> bs, raised |-> FALSE]

\* for line in page: page is None, TypeError
NonePage(bs) == [boxes |-> bs, raised |-> TRUE]

\* for page in (result or []): ..., from the k-th page on
RECURSIVE PageLoop(_, _, _)
PageLoop(pages, k, bs) ==
    IF k > Len(pages) THEN [boxes |-> bs, raised |-> FALSE]
    ELSE IF pages[k].kind = "None" THEN NonePage(bs)
    ELSE PageLoop(pages, k + 1, LineLoop(pages[k].items, 1, bs))

\* what lines 41-58 do to the boxes of r
LoopOutcome(r) == PageLoop(PagesOf(result[r]), 1, boxes[r])

\* both loops run to their end
Assemble(r) ==
    /\ loop = r
    /\ pc[r] = "Recognized"
    /\ ~LoopOutcome(r).raised
    /\ boxes' = [boxes EXCEPT ![r] = LoopOutcome(r).boxes]
    /\ pc' = [pc EXCEPT ![r] = "Assembled"]
    /\ UNCHANGED <<ocr, loop, upload, content, img_np, result, calls, response,
                   sent>>

\* the loops raise, leaving the boxes appended before
AssembleRaise(r) ==
    /\ loop = r
    /\ pc[r] = "Recognized"
    /\ LoopOutcome(r).raised
    /\ boxes' = [boxes EXCEPT ![r] = LoopOutcome(r).boxes]
    /\ pc' = [pc EXCEPT ![r] = "AssembleFailed"]
    /\ UNCHANGED <<ocr, loop, upload, content, img_np, result, calls, response,
                   sent>>

\* return {"boxes": boxes}: the framework sends it
Return(r) ==
    /\ loop = r
    /\ pc[r] = "Assembled"
    /\ response' = [response EXCEPT ![r] = Success(boxes[r])]
    /\ pc' = [pc EXCEPT ![r] = "Responded"]
    /\ UNCHANGED <<ocr, loop, upload, frame, calls, sent>>

\* the exception leaves ocr_image and the framework answers for it
ErrorResponse(r) ==
    /\ loop = r
    /\ pc[r] \in Failed
    /\ response[r] = NoResponse
    /\ response' = [response EXCEPT ![r] = InternalServerError]
    /\ sent' = [sent EXCEPT ![pc[r]] = sent[pc[r]] \cup {InternalServerError}]
    /\ UNCHANGED <<ocr, loop, pc, upload, frame, calls>>

\* the response is out: the call, its file and its connection are gone, and
\* the event loop is free
Close(r) ==
    /\ loop = r
    /\ response[r] # NoResponse
    /\ loop' = NoRequest
    /\ Freed(r)
    /\ upload' = [upload EXCEPT ![r] = Unbound]
    /\ response' = [response EXCEPT ![r] = NoResponse]
    /\ UNCHANGED <<ocr, pc, calls, sent>>

Next ==
    \E r \in Requests :
        \/ Arrive(r)
        \/ ReadDone(r)
        \/ Resume(r)
        \/ Decode(r)
        \/ DecodeRaise(r)
        \/ EngineCall(r)
        \/ EngineReturn(r)
        \/ EngineRaise(r)
        \/ Assemble(r)
        \/ AssembleRaise(r)
        \/ Return(r)
        \/ ErrorResponse(r)
        \/ Close(r)

Spec == Init /\ [][Next]_vars

TypeOK ==
    /\ loop \in Requests \cup {NoRequest}
    /\ \A r \in Requests :
        /\ pc[r] \in {"Idle", "Responded"} \cup InFlight \cup Failed
        /\ calls[r] \in 0..1
        /\ response[r].status \in {0, 200, 500}

\* ---- properties --------------------------------------------------------
Answered(r) == response[r] # NoResponse

HasResult(r) == result[r].kind \in {"None", "list"}

\* the pages an engine result holds
ResultPages(res) == IF res.kind = "list" THEN res.items ELSE <<>>

\* the detections of an engine result, in the engine's order
RECURSIVE Flatten(_)
Flatten(ps) ==
    IF Len(ps) = 0 THEN <<>>
    ELSE Flatten(SubSeq(ps, 1, Len(ps) - 1)) \o LinesOf(ps[Len(ps)])

Detections(res) == Flatten(ResultPages(res))

\* the boxes a response carries, if it carries any
HasBoxes(resp) == "boxes" \in DOMAIN resp.body
BoxesIn(resp) == IF HasBoxes(resp) THEN resp.body.boxes ELSE <<>>

\* C1: a request whose upload cannot be decoded is answered with a 4xx
\* status, and ocr.ocr is never called for it.
C1_DecodeFailureIsClientError ==
    \A r \in Requests :
        pc[r] = "DecodeFailed" /\ Answered(r) =>
            /\ response[r].status \in 400..499
            /\ calls[r] = 0

\* C2: a request whose engine call raises is answered with a 5xx status,
\* never with a success, and its answer is none of the answers given to
\* requests that failed to decode.
C2_EngineFailureIsDistinctServerError ==
    \A r \in Requests :
        pc[r] = "EngineFailed" /\ Answered(r) =>
            /\ response[r].status \in 500..599
            /\ ~HasBoxes(response[r])
            /\ response[r] \notin sent["DecodeFailed"]

\* C3: when the engine returns no detection (None, no page, or only empty
\* or None pages), the request is answered 200 with {"boxes": []}.
C3_NoDetectionsIsEmptySuccess ==
    \A r \in Requests :
        Answered(r) /\ HasResult(r) /\ Detections(result[r]) = <<>> =>
            response[r] = [status |-> 200, body |-> [boxes |-> <<>>]]

IsMinOf(m, S) == m \in S /\ \A s \in S : m <= s
IsMaxOf(m, S) == m \in S /\ \A s \in S : m >= s

\* the k-th box is the bounding rectangle of detection d
BoundingRectangle(b, d) ==
    LET X == {d[1][i][1].v : i \in 1..Len(d[1])}
        Y == {d[1][i][2].v : i \in 1..Len(d[1])}
    IN  /\ Len(d[1]) >= 1
        /\ IsMinOf(b.x.v, X)
        /\ IsMinOf(b.y.v, Y)
        /\ IsMaxOf(b.x.v + b.width.v, X)
        /\ IsMaxOf(b.y.v + b.height.v, Y)
        /\ b.width.v >= 0
        /\ b.height.v >= 0
        /\ (Len(d[1]) = 1 => b.width.v = 0 /\ b.height.v = 0)
        /\ b.text = d[2][1]
        /\ b.confidence.v = d[2][2].v

\* C4: every box a request holds or is answered with is the bounding
\* rectangle of the detection at its place: x and y are the least
\* coordinates, width and height the spans (never negative, zero for one
\* point), text and confidence the detection's own, whatever their range.
C4_BoxIsBoundingRectangle ==
    \A r \in Requests :
        /\ \A k \in 1..Len(boxes[r]) :
               /\ HasResult(r)
               /\ k <= Len(Detections(result[r]))
               /\ BoundingRectangle(boxes[r][k], Detections(result[r])[k])
        /\ \A k \in 1..Len(BoxesIn(response[r])) :
               /\ HasResult(r)
               /\ k <= Len(Detections(result[r]))
               /\ BoundingRectangle(BoxesIn(response[r])[k], Detections(result[r])[k])

\* an answered request shows a rotated polygon reaching above the image, and
\* a one-point polygon with empty text and a score over 1.0
C4_Witness ==
    \E r \in Requests :
        /\ response[r].status = 200
        /\ Len(BoxesIn(response[r])) = 2
        /\ \E i, j \in 1..2 :
            /\ BoxesIn(response[r])[i].y.v = -3
            /\ BoxesIn(response[r])[i].width.v = 40
            /\ BoxesIn(response[r])[i].height.v = 63
            /\ BoxesIn(response[r])[j].width.v = 0
            /\ BoxesIn(response[r])[j].height.v = 0
            /\ BoxesIn(response[r])[j].confidence.v = 120

\* C5: a success response carries one box per detection the engine
\* returned, the i-th box being the one of the i-th detection.
C5_OrderAndCardinalityPreserved ==
    \A r \in Requests :
        response[r].status = 200 =>
            LET ds == Detections(result[r])
                bs == BoxesIn(response[r])
            IN  /\ HasBoxes(response[r])
                /\ Len(bs) = Len(ds)
                /\ \A i \in 1..Len(ds) : bs[i] = ToBox(ds[i])

\* a success response with two equal zero-area boxes of empty text
C5_Witness ==
    \E r \in Requests :
        /\ response[r].status = 200
        /\ Len(BoxesIn(response[r])) = 2
        /\ BoxesIn(response[r])[1] = BoxesIn(response[r])[2]
        /\ BoxesIn(response[r])[1].text = ""
        /\ BoxesIn(response[r])[1].width.v = 0

\* what one request gets when it is the only one: a function of its bytes
\* and of what the engine did for it
RECURSIVE BoxesOfAll(_)
BoxesOfAll(ds) ==
    IF Len(ds) = 0 THEN <<>>
    ELSE Append(BoxesOfAll(SubSeq(ds, 1, Len(ds) - 1)), ToBox(ds[Len(ds)]))

AloneResponse(bytes, engineRaised, res) ==
    IF ~CanOpen(bytes) \/ engineRaised THEN InternalServerError
    ELSE IF \E k \in 1..Len(ResultPages(res)) : ResultPages(res)[k].kind = "None"
         THEN InternalServerError
    ELSE Success(BoxesOfAll(Detections(res)))

\* C6: whatever the other requests do, each request is answered as it would
\* be alone, and the engine handle stays as it was built.
C6_AnsweredAsIfAlone ==
    /\ ocr = [lang |-> "ch", show_log |-> FALSE]
    /\ \A r \in Requests :
           Answered(r) =>
               response[r] =
                   AloneResponse(upload[r], pc[r] = "EngineFailed", result[r])

\* a request answered with boxes while another, with other bytes, has been
\* in flight since before the first was resumed
C6_Witness ==
    \E r, q \in Requests :
        /\ r # q
        /\ response[r].status = 200
        /\ Len(BoxesIn(response[r])) >= 1
        /\ pc[q] = "Ready"
        /\ upload[q] # upload[r]

\* C7: no two requests are inside ocr.ocr at once, and while one is, a
\* request whose upload has been read can go on to its decode step.
C7_EngineSerializedOthersProceed ==
    \A r \in Requests :
        pc[r] = "InEngine" =>
            \A q \in Requests \ {r} :
                /\ pc[q] # "InEngine"
                /\ (pc[q] = "Ready" => ENABLED Resume(q))

\* C8: a response is a success with one box per detection the engine
\* returned, or a failure without any box.
C8_AllOrNothing ==
    \A r \in Requests :
        Answered(r) =>
            \/ /\ response[r].status = 200
               /\ HasBoxes(response[r])
               /\ Len(BoxesIn(response[r])) = Len(Detections(result[r]))
            \/ /\ response[r].status # 200
               /\ ~HasBoxes(response[r])

\* a request that failed after it had appended a box, answered without boxes
C8_Witness ==
    \E r \in Requests :
        /\ pc[r] = "AssembleFailed"
        /\ Len(boxes[r]) >= 1
        /\ Answered(r)
        /\ ~HasBoxes(response[r])

\* the stage of the specification's state machine a position belongs to
Stage(p) ==
    CASE p \in {"Reading", "Ready", "Received"} -> "Received"
      [] p \in {"Decoded", "InEngine"} -> "Decoded"
      [] OTHER -> p

StageEdges ==
    { <<"Idle", "Received">>, <<"Received", "Decoded">>,
      <<"Decoded", "Recognized">>, <<"Recognized", "Assembled">>,
      <<"Assembled", "Responded">>,
      <<"Received", "DecodeFailed">>, <<"Decoded", "EngineFailed">> }

\* C9: a request moves only along Received, Decoded, Recognized, Assembled,
\* Responded, leaving it only from Received to DecodeFailed and from Decoded
\* to EngineFailed.
C9_OnlySpecifiedTransitions ==
    [][\A r \in Requests :
          Stage(pc'[r]) # Stage(pc[r]) =>
              <<Stage(pc[r]), Stage(pc'[r])>> \in StageEdges]_vars

Offset(ps, k) == CountLines(SubSeq(ps, 1, k - 1))

====
